---------------------------- MODULE Spec2Model ----------------------------
(***************************************************************************)
(* The webseed data-fetch subsystem of libtransmission/webseed.cc:         *)
(* ConnectionLimiter, tr_webseed_task, tr_webseed, the idle driver, the    *)
(* HTTP callbacks and the block hand-off to the session thread.            *)
(***************************************************************************)
EXTENDS Integers, Sequences, FiniteSets, TLC

(***************************************************************************)
(* Program constants.                                                      *)
(***************************************************************************)
TimeoutIntervalSecs == 120
MaxConnections == 4
MaxConsecutiveFailures == MaxConnections
PreferredBlocksPerTask == 64

\* size_t arithmetic is modular.  The model keeps the wrap-around but scales
\* the width down: every count of the model stays far below SizeMod.
SizeMod == 65536

(***************************************************************************)
(* Bounds of the model.                                                    *)
(***************************************************************************)
\* most consecutive failures a run drives the limiter's counter to
MaxFailures == 5
\* most outstanding tasks the limiter-only runs drive the counter to
MaxLimTasks == 5
\* most tr_webseed_task objects alive at once
MaxTasks == 2
\* most spans one call of the peer manager hands over
MaxSpans == 2
\* most write_block_data hand-offs waiting for the session thread
MaxQueue == 2

\* instants the clock (tr_time(), in seconds) is sampled at
Times == {0, 1, 119, 120, 121, 239, 240, 241}

Max(a, b) == IF a >= b THEN a ELSE b
Min(a, b) == IF a <= b THEN a ELSE b

(***************************************************************************)
(* ConnectionLimiter.  A limiter is the record of its three fields; each   *)
(* method is an operator from the limiter (and the clock) to the limiter   *)
(* after the call, or to the value returned.                               *)
(***************************************************************************)
FreshLimiter == [n_tasks |-> 0, n_consecutive_failures |-> 0, paused_until |-> 0]

\* mutant: the started task is not counted
taskStarted_notCounted(l) == l

taskStarted(l) == [l EXCEPT !.n_tasks = (l.n_tasks + 1) % SizeMod]

\* mutant: failures are counted but never start a pause
taskFailed_neverPauses(l, t) == [l EXCEPT !.n_consecutive_failures = @ + 1]

taskFailed(l, t) ==
    LET n == l.n_consecutive_failures + 1
    IN  IF n >= MaxConsecutiveFailures
        THEN [l EXCEPT !.n_consecutive_failures = n,
                       !.paused_until = t + TimeoutIntervalSecs]
        ELSE [l EXCEPT !.n_consecutive_failures = n]

\* mutant: a successful completion clears the failure count and the pause
taskFinished_successResets(l, success, t) ==
    LET l1 == IF success THEN [l EXCEPT !.n_consecutive_failures = 0, !.paused_until = 0]
              ELSE taskFailed(l, t)
    IN  [l1 EXCEPT !.n_tasks = (l1.n_tasks - 1) % SizeMod]

\* mutant: a finished task is taken off the count twice
taskFinished_countsTwice(l, success, t) ==
    LET l1 == IF success THEN l ELSE taskFailed(l, t)
    IN  [l1 EXCEPT !.n_tasks = (l1.n_tasks - 2) % SizeMod]

taskFinished(l, success, t) ==
    LET l1 == IF success THEN l ELSE taskFailed(l, t)
    IN  [l1 EXCEPT !.n_tasks = (l1.n_tasks - 1) % SizeMod]

\* mutant: the failure count is reset, the pause is left standing
gotData_keepsPause(l) == [l EXCEPT !.n_consecutive_failures = 0]

gotData(l) == [l EXCEPT !.n_consecutive_failures = 0, !.paused_until = 0]

\* mutant: the pause is taken to last through the instant it ends at
isPaused_inclusive(l, t) == l.paused_until >= t

isPaused(l, t) == l.paused_until > t

\* mutant: the single-connection throttle after a failure is forgotten
maxConnections_noThrottle(l) == MaxConnections

maxConnections(l) == IF l.n_consecutive_failures > 0 THEN 1 ELSE MaxConnections

\* mutant: the subtraction is not guarded against n_tasks > max
slotsAvailable_unguarded(l, t) ==
    IF isPaused(l, t) THEN 0 ELSE (maxConnections(l) - l.n_tasks) % SizeMod

slotsAvailable(l, t) ==
    IF isPaused(l, t) THEN 0
    ELSE IF l.n_tasks >= maxConnections(l) THEN 0
    ELSE (maxConnections(l) - l.n_tasks) % SizeMod

\* TR_ASSERT(n_tasks > 0) in taskFailed, taskFinished and gotData
AssertTasksOutstanding(l) == l.n_tasks > 0


(***************************************************************************)
(* The torrent's layout (tr_block_info, tr_file_piece_map), an external    *)
(* collaborator: blocks of BlockSize bytes, the last one possibly shorter, *)
(* laid over the concatenation of the files.                               *)
(***************************************************************************)
\* bytes per block (tr_block_info::BlockSize, scaled down)
BlockSize == 2

\* the file layouts a run may start with: the sizes of the torrent's files
Layouts == { <<1, 1>> }

RECURSIVE SumTo(_, _)
SumTo(fs, n) == IF n = 0 THEN 0 ELSE fs[n] + SumTo(fs, n - 1)

total_size(fs) == SumTo(fs, Len(fs))
block_count(fs) == (total_size(fs) + BlockSize - 1) \div BlockSize
Blocks(fs) == 0 .. (block_count(fs) - 1)

block_size(fs, b) ==
    IF b + 1 = block_count(fs) THEN total_size(fs) - b * BlockSize ELSE BlockSize

\* block_loc(b).byte
block_loc(b) == b * BlockSize

\* byte_loc(byte).block
byte_loc_block(fs, byte) ==
    IF byte = total_size(fs) THEN block_count(fs) - 1 ELSE byte \div BlockSize

\* byte_loc(byte).block_offset
byte_loc_block_offset(fs, byte) == byte - byte_loc_block(fs, byte) * BlockSize

\* file_offset(loc): the file holding the byte, and the byte's offset in it
file_begin(fs, i) == SumTo(fs, i - 1)
file_index(fs, byte) ==
    CHOOSE i \in 1 .. Len(fs) : file_begin(fs, i) <= byte /\ byte < file_begin(fs, i) + fs[i]
file_offset(fs, byte) == byte - file_begin(fs, file_index(fs, byte))
file_size(fs, i) == fs[i]

\* a block span [begin, end)
Spans(fs) == { sp \in [begin : Blocks(fs), end : 1 .. block_count(fs)] : sp.begin < sp.end }

\* tr_webseed_task's constructor: end_byte of a span
end_byte(fs, sp) == block_loc(sp.end - 1) + block_size(fs, sp.end - 1)

VARIABLES
    now,      \* tr_time()
    lim,      \* tr_webseed::connection_limiter
    files,    \* the torrent's file sizes
    tor,      \* the torrent: "running", "stopped" (found, not running) or "gone"
    have,     \* the blocks the torrent has (has_block)
    alive,    \* the tr_webseed has not been destructed
    tasks,    \* tr_webseed::tasks
    task,     \* the tr_webseed_task objects on the heap
    web,      \* the web thread inside onBufferGotData, before it takes the lock
    runq,     \* the functions queued by run_in_session_thread
    cap,      \* this run's bounds: on the queue's length, on consecutive failures,
              \* on the failed completions the history counts
    hist,     \* history: the clock at the latest failed completion (lastFailAt),
              \* the failed completions since the latest successful one (fails,
              \* counted up to cap.history) and since bytes last arrived (quiet)
    out,      \* the latest handler: its arguments or answer (io), what it emitted
    faults    \* the TR_ASSERTs that failed, the destructed objects that were used

vars == <<now, lim, files, tor, have, alive, tasks, task, web, runq, cap, hist, out, faults>>

\* the heap's slots for tr_webseed_task objects
TaskIds == DOMAIN task

NoReq == [active |-> FALSE, file |-> 0, off |-> 0, len |-> 0, got |-> 0]
NoTask == [st |-> "free", begin |-> 0, end |-> 0, end_byte |-> 0, loc |-> 0, buf |-> 0,
           dead |-> FALSE, req |-> NoReq]
NoCb == [t |-> 0, n |-> 0]

\* tr_webseed_task::tr_webseed_task
NewTask(sp) ==
    [st |-> "used", begin |-> sp.begin, end |-> sp.end, end_byte |-> end_byte(files, sp),
     loc |-> block_loc(sp.begin), buf |-> 0, dead |-> FALSE, req |-> NoReq]

\* what a handler has done so far: the state it changes and what it emitted
Entry ==
    [lim |-> lim, tasks |-> tasks, task |-> task, runq |-> runq, faults |-> faults,
     ev |-> <<>>, fetch |-> <<>>, sent |-> <<>>, drained |-> <<>>, idle |-> FALSE,
     asked |-> FALSE, pm |-> <<>>, over |-> FALSE]

Out(op, io, m) ==
    [op |-> op, io |-> io, ev |-> m.ev, fetch |-> m.fetch, sent |-> m.sent,
     drained |-> m.drained, idle |-> m.idle, pm |-> m.pm]

NoOut ==
    [op |-> "none", io |-> <<>>, ev |-> <<>>, fetch |-> <<>>, sent |-> <<>>,
     drained |-> <<>>, idle |-> FALSE, pm |-> <<>>]

\* the handler's effects become the next state; a handler that would need more
\* task objects or queue entries than the bounds allow is not taken
Commit(op, io, m) ==
    /\ ~m.over
    /\ lim' = m.lim
    /\ tasks' = m.tasks
    /\ task' = m.task
    /\ runq' = m.runq
    /\ faults' = m.faults
    /\ out' = Out(op, io, m)

Fault(m, ok, what) == IF ok THEN m ELSE [m EXCEPT !.faults = @ \cup {what}]

\* mutant: a torrent that is stopped or complete is taken for a missing one
NoTorrent_orNotFetching == tor # "running" \/ have = Blocks(files)

\* tr_webseed::getTorrent() == nullptr
NoTorrent == tor = "gone"
is_running == tor = "running"
is_done == have = Blocks(files)
\* tor == nullptr || !tor->is_running() || tor->is_done()
CannotFetch == NoTorrent \/ ~is_running \/ is_done

(***************************************************************************)
(* tr_webseed::activeReqCount                                              *)
(***************************************************************************)
\* std::accumulate over the tasks in S, from sum, of term[task]
RECURSIVE accumulate(_, _, _)
accumulate(S, sum, term) ==
    IF S = {} THEN sum
    ELSE LET t == CHOOSE x \in S : TRUE
         IN  accumulate(S \ {t}, (sum + term[t]) % SizeMod, term)

\* mutant: only the blocks from the cursor on are counted
activeReqCount_fromCursor(dir) ==
    IF dir = "TR_CLIENT_TO_PEER"
    THEN accumulate(tasks, 0,
                    [t \in TaskIds |-> task[t].end - byte_loc_block(files, task[t].loc)])
    ELSE 0

activeReqCount(dir) ==
    IF dir = "TR_CLIENT_TO_PEER"
    THEN accumulate(tasks, 0, [t \in TaskIds |-> task[t].end - task[t].begin])
    ELSE 0

(***************************************************************************)
(* task_request_next_chunk                                                 *)
(***************************************************************************)
\* mutant: the chunk runs to the end of the task, past the end of the file
this_chunk_ignoresFile(left_in_file, left_in_task) == left_in_task

\* mutant: the chunk runs to the end of the file, past the end of the task
this_chunk_wholeFile(left_in_file, left_in_task) == left_in_file

\* mutant: the chunk is one byte short, its length taken for its last offset
this_chunk_offByOne(left_in_file, left_in_task) == Min(left_in_file, left_in_task) - 1

this_chunk(left_in_file, left_in_task) == Min(left_in_file, left_in_task)

\* the first byte of the next chunk: byte_loc(task->loc.byte + buffered)
\* mutant: the bytes buffered but not yet consumed are not skipped
next_chunk_byte_ignoresBuffer(tk) == tk.loc

next_chunk_byte(tk) == tk.loc + tk.buf

task_request_next_chunk(m, t) ==
    IF NoTorrent \/ m.over THEN m
    ELSE
        LET tk == m.task[t]
            byte == next_chunk_byte(tk)
            fi == file_index(files, byte)
            fo == file_offset(files, byte)
            left_in_file == (file_size(files, fi) - fo) % SizeMod
            left_in_task == (tk.end_byte - byte) % SizeMod
            chunk == this_chunk(left_in_file, left_in_task)
            m1 == Fault(m, chunk > 0, "this_chunk > 0")
        IN  [m1 EXCEPT
                !.lim = taskStarted(@),
                !.task[t].req = [active |-> TRUE, file |-> fi, off |-> fo, len |-> chunk,
                                 got |-> 0],
                !.fetch = Append(@, [t |-> t, file |-> fi, first |-> fo,
                                     last |-> fo + chunk - 1])]

(***************************************************************************)
(* tr_webseed::requestBlocks                                               *)
(***************************************************************************)
RECURSIVE requestBlocksLoop(_, _)
requestBlocksLoop(m, spans) ==
    IF spans = <<>> THEN m
    ELSE
        LET free == { i \in TaskIds : m.task[i].st = "free" }
        IN  IF free = {} THEN [m EXCEPT !.over = TRUE]
            ELSE
                LET id == CHOOSE i \in free : \A j \in free : i <= j
                    m1 == [m EXCEPT !.task[id] = NewTask(Head(spans)),
                                    !.tasks = @ \cup {id}]
                    m2 == task_request_next_chunk(m1, id)
                    m3 == [m2 EXCEPT !.sent = Append(@, Head(spans))]
                IN  requestBlocksLoop(m3, Tail(spans))

\* mutant: only the torrent's absence is checked, not is_running() and is_done()
requestBlocks_onlyNullCheck(m, spans) ==
    IF NoTorrent THEN m ELSE requestBlocksLoop(m, spans)

\* mutant: no task is started while the limiter reports no free slot
requestBlocks_respectsSlots(m, spans) ==
    IF CannotFetch \/ slotsAvailable(m.lim, now) = 0 THEN m
    ELSE requestBlocksLoop(m, spans)

requestBlocks(m, spans) == IF CannotFetch THEN m ELSE requestBlocksLoop(m, spans)

(***************************************************************************)
(* tr_webseed::canRequest and on_idle                                      *)
(***************************************************************************)
\* mutant: the limiter is not asked for its free slots
canRequest_ignoresLimiter(l) ==
    IF CannotFetch THEN <<0, 0>>
    ELSE <<MaxConnections, (MaxConnections * PreferredBlocksPerTask) % SizeMod>>

\* mutant: the torrent's state is not looked at
canRequest_ignoresTorrent(l) ==
    LET n_slots == slotsAvailable(l, now)
    IN  IF n_slots = 0 THEN <<0, 0>>
        ELSE <<n_slots, (n_slots * PreferredBlocksPerTask) % SizeMod>>

canRequest(l) ==
    LET n_slots == slotsAvailable(l, now)
    IN  IF n_slots = 0 THEN <<0, 0>>
        ELSE IF CannotFetch THEN <<0, 0>>
        ELSE <<n_slots, (n_slots * PreferredBlocksPerTask) % SizeMod>>

RECURSIVE SpanBlocks(_)
SpanBlocks(spans) ==
    IF spans = <<>> THEN 0
    ELSE (Head(spans).end - Head(spans).begin) + SpanBlocks(Tail(spans))

\* mutant: the spans beyond max_spans are kept
resize_keepsAll(spans, max_spans) == spans

\* spans.resize(max_spans)
resize(spans, max_spans) ==
    IF Len(spans) > max_spans THEN SubSeq(spans, 1, max_spans) ELSE spans

\* pm: what tr_peerMgrGetNextRequests answers, at most max_blocks blocks
on_idle(m, pm) ==
    LET limit == canRequest(m.lim)
    IN  IF limit[1] = 0 \/ limit[2] = 0 \/ m.over THEN m
        ELSE IF SpanBlocks(pm) > limit[2] THEN [m EXCEPT !.over = TRUE]
        ELSE requestBlocks([m EXCEPT !.asked = TRUE, !.pm = pm], resize(pm, limit[1]))

(***************************************************************************)
(* useFetchedBlocks                                                        *)
(***************************************************************************)
\* tor->has_block(block)
\* mutant: no block is ever taken for one the torrent has
has_block_never(block) == FALSE

\* mutant: every block is taken for one the torrent has
has_block_always(block) == TRUE

has_block(block) == block \in have

\* the loop goes on while evbuffer_get_length(buf) >= block_size
\* mutant: it goes on while the buffer holds any bytes at all
blockBuffered_anyBytes(buf, size) == buf > 0

blockBuffered(buf, size) == buf >= size

\* the cursor after a block: byte_loc(task->loc.byte + block_size)
\* mutant: the cursor moves on by the nominal block size, not the block's own
advance_nominalSize(loc, size) == loc + BlockSize

\* mutant: the cursor is left where it was
advance_stays(loc, size) == loc

advance(loc, size) == loc + size

RECURSIVE drainLoop(_, _)
drainLoop(m, t) ==
    LET tk == m.task[t]
        block == byte_loc_block(files, tk.loc)
        size == block_size(files, block)
    IN  IF ~blockBuffered(tk.buf, size) THEN m
        ELSE
            LET dup == has_block(block)
                m1 == IF dup THEN m
                      ELSE IF Len(m.runq) >= cap.queue THEN [m EXCEPT !.over = TRUE]
                      ELSE [m EXCEPT !.runq = Append(@, [block |-> block])]
                byte == advance(tk.loc, size)
                m2 == [m1 EXCEPT !.task[t].buf = @ - size,
                                 !.task[t].loc = byte,
                                 !.drained = Append(@, [block |-> block, dup |-> dup])]
                m3 == Fault(m2, byte <= tk.end_byte, "loc.byte <= end_byte")
                m4 == Fault(m3, byte = tk.end_byte \/ byte_loc_block_offset(files, byte) = 0,
                            "loc.byte == end_byte || loc.block_offset == 0")
            IN  IF m4.over THEN m4 ELSE drainLoop(m4, t)

useFetchedBlocks(m, t) == IF NoTorrent THEN m ELSE drainLoop(m, t)

(***************************************************************************)
(* onPartialDataFetched                                                    *)
(***************************************************************************)
RECURSIVE publishRejection(_, _, _)
publishRejection(m, begin, end) ==
    IF begin < end
    THEN publishRejection([m EXCEPT !.ev = Append(@, [e |-> "GotRejected", arg |-> begin])],
                          begin + 1, end)
    ELSE m

\* mutant: the rejection starts after the cursor's block
rejectedSpan_afterCursor(tk) == [begin |-> byte_loc_block(files, tk.loc) + 1, end |-> tk.end]

\* the blocks rejected when a fetch fails: { task->loc.block, task->blocks.end }
\* mutant: the whole span is rejected, the blocks already consumed included
rejectedSpan_fromSpanBegin(tk) == [begin |-> tk.begin, end |-> tk.end]

rejectedSpan(tk) == [begin |-> byte_loc_block(files, tk.loc), end |-> tk.end]

\* mutant: the task is deleted and left in the active set
eraseAndDelete_notErased(m, t) == [m EXCEPT !.task[t] = NoTask]

\* webseed->tasks.erase(task); delete task
eraseAndDelete(m, t) == [m EXCEPT !.tasks = @ \ {t}, !.task[t] = NoTask]

onPartialDataFetched(m, t, success, pm) ==
    IF m.task[t].dead THEN [m EXCEPT !.task[t] = NoTask]
    ELSE
        LET m0 == [m EXCEPT !.task[t].req = NoReq]
            m1 == Fault(m0, AssertTasksOutstanding(m0.lim), "taskFinished: n_tasks > 0")
            m2 == [m1 EXCEPT !.lim = taskFinished(@, success, now)]
        IN  IF NoTorrent THEN m2
            ELSE IF ~success
            THEN LET span == rejectedSpan(m2.task[t])
                 IN  eraseAndDelete(publishRejection(m2, span.begin, span.end), t)
            ELSE
                LET m3 == useFetchedBlocks(m2, t)
                    tk == m3.task[t]
                IN  IF tk.loc < tk.end_byte THEN task_request_next_chunk(m3, t)
                    ELSE
                        LET m4 == Fault(m3, tk.buf = 0, "evbuffer_get_length == 0")
                            m5 == Fault(m4, tk.loc = tk.end_byte, "loc.byte == end_byte")
                            m6 == eraseAndDelete(m5, t)
                        IN  on_idle([m6 EXCEPT !.idle = TRUE], pm)

(***************************************************************************)
(* The initial state: a webseed just constructed for a running torrent.    *)
(***************************************************************************)
InitWith(L, N, Q, F, H) ==
    /\ now = 0
    /\ lim = FreshLimiter
    /\ files \in L
    /\ tor = "running"
    /\ have = {}
    /\ alive = TRUE
    /\ tasks = {}
    /\ task = [i \in 1 .. N |-> NoTask]
    /\ web = NoCb
    /\ runq = <<>>
    /\ cap = [queue |-> Q, failures |-> F, history |-> H]
    /\ hist = [lastFailAt |-> 0, fails |-> 0, quiet |-> 0]
    /\ out = NoOut
    /\ faults = {}

Init == InitWith(Layouts, MaxTasks, MaxQueue, MaxFailures, 0)

Env(op) == out' = NoOut

\* the history after a completion was handled by the limiter
Finished(success) ==
    IF success THEN [hist EXCEPT !.fails = 0]
    ELSE [lastFailAt |-> now, fails |-> Min(hist.fails + 1, cap.history),
          quiet |-> hist.quiet + 1]

\* the history after bytes arrived
GotBytes == [hist EXCEPT !.quiet = 0]

\* the clock advances to a later sampled instant
Tick(T) ==
    /\ \E t \in T : t > now /\ now' = t
    /\ Env("tick")
    /\ UNCHANGED <<lim, files, tor, have, alive, tasks, task, web, runq, cap, hist, faults>>

(***************************************************************************)
(* The limiter driven on its own: each method called in any order.         *)
(***************************************************************************)
LimiterOnly(op, io) ==
    /\ out' = Out(op, io, Entry)
    /\ UNCHANGED <<files, tor, have, alive, tasks, task, web, runq, cap, faults>>

InitLimiter == InitWith({<<3, 2>>}, 1, 1, MaxFailures, 0)

CallTaskStarted ==
    /\ lim.n_tasks < MaxLimTasks
    /\ lim' = taskStarted(lim)
    /\ LimiterOnly("taskStarted", <<>>)
    /\ UNCHANGED <<now, hist>>

CallTaskFinished(success) ==
    /\ lim.n_tasks > 0
    /\ success \/ lim.n_consecutive_failures < cap.failures
    /\ lim' = taskFinished(lim, success, now)
    /\ hist' = Finished(success)
    /\ LimiterOnly(IF success THEN "taskFinished(true)" ELSE "taskFinished(false)", <<>>)
    /\ UNCHANGED now

CallGotData ==
    /\ lim' = gotData(lim)
    /\ faults' = IF AssertTasksOutstanding(lim) THEN faults
                 ELSE faults \cup {"gotData: n_tasks > 0"}
    \* io: whether the call found the limiter paused
    /\ out' = Out("gotData", <<isPaused(lim, now)>>, Entry)
    /\ hist' = GotBytes
    /\ UNCHANGED <<now, files, tor, have, alive, tasks, task, web, runq, cap>>

CallSlotsAvailable ==
    /\ out' = Out("slotsAvailable", <<slotsAvailable(lim, now)>>, Entry)
    /\ UNCHANGED <<now, lim, files, tor, have, alive, tasks, task, web, runq, cap, hist, faults>>

NextLimiter ==
    \/ CallTaskStarted
    \/ \E success \in BOOLEAN : CallTaskFinished(success)
    \/ CallGotData
    \/ CallSlotsAvailable
    \/ Tick(Times)

SpecLimiter == InitLimiter /\ [][NextLimiter]_vars

(***************************************************************************)
(* The webseed's handlers, each one step.                                  *)
(***************************************************************************)
\* the sequences of spans a caller may pass
SpanSeqs ==
    UNION { [1 .. n -> Spans(files)] : n \in 0 .. Min(MaxSpans, Cardinality(TaskIds)) }

\* HTTP statuses a fetch may end with
Statuses == {206, 404}

\* tr_webseed::requestBlocks, called by the peer manager
RequestBlocks(spans) ==
    /\ alive
    /\ Commit("requestBlocks", spans, requestBlocks(Entry, spans))
    /\ UNCHANGED <<now, files, tor, have, alive, web, cap, hist>>

\* tr_webseed::canRequest, called by the peer manager
CallCanRequest ==
    /\ alive
    /\ out' = Out("canRequest", canRequest(lim), Entry)
    /\ UNCHANGED <<now, lim, files, tor, have, alive, tasks, task, web, runq, cap, hist, faults>>

\* a handler that may consult the peer manager: one step for each answer
\* tr_peerMgrGetNextRequests can give, a single step when it is not asked
WithPeerMgr(op, io, H(_)) ==
    IF H(<<>>).asked THEN \E pm \in SpanSeqs : Commit(op, io, H(pm))
    ELSE Commit(op, io, H(<<>>))

\* the idle timer fires
OnIdleTimer ==
    /\ alive
    /\ LET H(pm) == on_idle([Entry EXCEPT !.idle = TRUE], pm)
       IN  WithPeerMgr("on_idle", canRequest(lim), H)
    /\ UNCHANGED <<now, files, tor, have, alive, web, cap, hist>>

\* the web thread adds n bytes of the response to the task's buffer, and
\* onBufferGotData reads n_added and task->dead
WebData(t, n) ==
    /\ web = NoCb
    /\ task[t].st = "used"
    /\ task[t].req.active
    /\ task[t].req.got + n <= task[t].req.len
    /\ task' = [task EXCEPT ![t].buf = @ + n, ![t].req.got = @ + n]
    /\ web' = IF n = 0 \/ task[t].dead THEN NoCb ELSE [t |-> t, n |-> n]
    /\ Env("evbuffer_add")
    /\ UNCHANGED <<now, lim, files, tor, have, alive, tasks, runq, cap, hist, faults>>

\* mutant: the event is published, the limiter is not told
gotPieceData_limiterNotTold(m, n_bytes) ==
    [m EXCEPT !.ev = Append(@, [e |-> "GotPieceData", arg |-> n_bytes])]

\* onBufferGotData, having taken the session lock: task->webseed->gotPieceData
gotPieceData(m, n_bytes) ==
    LET m1 == [m EXCEPT !.ev = Append(@, [e |-> "GotPieceData", arg |-> n_bytes])]
        m2 == Fault(m1, AssertTasksOutstanding(m1.lim), "gotData: n_tasks > 0")
    IN  [m2 EXCEPT !.lim = gotData(@)]

OnBufferGotData ==
    /\ web # NoCb
    /\ web' = NoCb
    /\ Commit("onBufferGotData", <<web.t>>,
              IF alive THEN gotPieceData(Entry, web.n)
              ELSE Fault(Entry, FALSE, "gotPieceData on a destructed tr_webseed"))
    /\ hist' = IF alive THEN GotBytes ELSE hist
    /\ UNCHANGED <<now, files, tor, have, alive, cap>>

\* the fetch of task t ends with an HTTP status: onPartialDataFetched
OnPartialDataFetched(t, status) ==
    /\ task[t].st = "used"
    /\ task[t].req.active
    /\ web.t # t
    /\ status = 206 \/ task[t].dead \/ lim.n_consecutive_failures < cap.failures
    /\ LET H(pm) == onPartialDataFetched(Entry, t, status = 206, pm)
       IN  WithPeerMgr("onPartialDataFetched", <<t, status>>, H)
    /\ hist' = IF task[t].dead THEN hist ELSE Finished(status = 206)
    /\ UNCHANGED <<now, files, tor, have, alive, web, cap>>

\* mutant: the event is published before the block is written to the cache
write_block_func_eventFirst(m, d) ==
    IF NoTorrent THEN m
    ELSE [m EXCEPT !.ev = @ \o << [e |-> "GotBlock", arg |-> d.block],
                                  [e |-> "write_block", arg |-> d.block] >>]

\* write_block_data::write_block_func, run by the session thread
write_block_func(m, d) ==
    IF NoTorrent THEN m
    ELSE
        LET m1 == [m EXCEPT !.ev = Append(@, [e |-> "write_block", arg |-> d.block])]
        IN  IF alive
            THEN [m1 EXCEPT !.ev = Append(@, [e |-> "GotBlock", arg |-> d.block])]
            ELSE Fault(m1, FALSE, "publish on a destructed tr_webseed")

RunWriteBlock ==
    /\ runq # <<>>
    /\ Commit("write_block_func", <<Head(runq).block>>,
              write_block_func([Entry EXCEPT !.runq = Tail(@)], Head(runq)))
    \* the peer manager's answer to GotBlock: the torrent has the block
    /\ have' = IF ~NoTorrent /\ alive THEN have \cup {Head(runq).block} ELSE have
    /\ UNCHANGED <<now, files, tor, alive, web, cap, hist>>

\* tr_webseed::~tr_webseed
Destroy ==
    /\ alive
    /\ alive' = FALSE
    /\ task' = [i \in TaskIds |-> IF i \in tasks THEN [task[i] EXCEPT !.dead = TRUE]
                                  ELSE task[i]]
    /\ tasks' = {}
    /\ Env("~tr_webseed")
    /\ UNCHANGED <<now, lim, files, tor, have, web, runq, cap, hist, faults>>

(***************************************************************************)
(* The torrent changes under the webseed.                                  *)
(***************************************************************************)
TorrentStop ==
    /\ tor = "running"
    /\ tor' = "stopped"
    /\ Env("stop")
    /\ UNCHANGED <<now, lim, files, have, alive, tasks, task, web, runq, cap, hist, faults>>

TorrentStart ==
    /\ tor = "stopped"
    /\ tor' = "running"
    /\ Env("start")
    /\ UNCHANGED <<now, lim, files, have, alive, tasks, task, web, runq, cap, hist, faults>>

TorrentRemove ==
    /\ tor # "gone"
    /\ tor' = "gone"
    /\ Env("remove")
    /\ UNCHANGED <<now, lim, files, have, alive, tasks, task, web, runq, cap, hist, faults>>

\* another peer delivers a block
OtherPeerGotBlock(b) ==
    /\ tor # "gone"
    /\ b \notin have
    /\ have' = have \cup {b}
    /\ Env("other peer")
    /\ UNCHANGED <<now, lim, files, tor, alive, tasks, task, web, runq, cap, hist, faults>>

\* instants the clock is sampled at in the runs of the whole webseed
WebseedTimes == {0, 120}

Next ==
    \/ \E spans \in SpanSeqs : RequestBlocks(spans)
    \/ CallCanRequest
    \/ OnIdleTimer
    \/ \E t \in TaskIds : \E n \in 0 .. total_size(files) : WebData(t, n)
    \/ OnBufferGotData
    \/ \E t \in TaskIds, status \in Statuses : OnPartialDataFetched(t, status)
    \/ RunWriteBlock
    \/ Destroy
    \/ TorrentStop
    \/ TorrentStart
    \/ TorrentRemove
    \/ \E b \in Blocks(files) : OtherPeerGotBlock(b)
    \/ Tick(WebseedTimes)

Spec == Init /\ [][Next]_vars

(***************************************************************************)
(* One task at a time over richer file layouts: the chunking protocol.     *)
(***************************************************************************)
ChunkLayouts == { <<3, 2>>, <<1, 1, 2>>, <<4, 1>> }
\* most hand-offs waiting for the session thread in these runs
ChunkQueue == 3
\* most consecutive failures in these runs
ChunkFailures == 1

InitChunk == InitWith(ChunkLayouts, 1, ChunkQueue, ChunkFailures, 0)

NextChunk ==
    \/ \E spans \in SpanSeqs : RequestBlocks(spans)
    \/ \E t \in TaskIds : \E n \in 0 .. total_size(files) : WebData(t, n)
    \/ OnBufferGotData
    \/ \E t \in TaskIds, status \in Statuses : OnPartialDataFetched(t, status)
    \/ RunWriteBlock
    \/ \E b \in Blocks(files) : OtherPeerGotBlock(b)

SpecChunk == InitChunk /\ [][NextChunk]_vars

(***************************************************************************)
(* A webseed none of whose fetches succeeds: every completion carries a    *)
(* status other than 206, whether or not bytes arrived before it.          *)
(***************************************************************************)
InitFailing == InitWith(Layouts, MaxTasks, MaxQueue, MaxFailures, MaxConsecutiveFailures)

NextFailing ==
    \/ \E spans \in SpanSeqs : RequestBlocks(spans)
    \/ CallCanRequest
    \/ OnIdleTimer
    \/ \E t \in TaskIds : \E n \in 0 .. total_size(files) : WebData(t, n)
    \/ OnBufferGotData
    \/ \E t \in TaskIds : OnPartialDataFetched(t, 404)
    \/ Tick(WebseedTimes)

SpecFailing == InitFailing /\ [][NextFailing]_vars

(***************************************************************************)
(* A webseed whose tasks are created by the idle logic alone: the timer    *)
(* and the on_idle call at a task's retirement; the peer manager never     *)
(* calls requestBlocks itself.                                             *)
(***************************************************************************)
\* most tr_webseed_task objects alive at once in these runs
IdleTasks == 5

InitIdle == InitWith(Layouts, IdleTasks, MaxQueue, MaxFailures, 0)

NextIdle ==
    \/ OnIdleTimer
    \/ \E t \in TaskIds : \E n \in 0 .. total_size(files) : WebData(t, n)
    \/ OnBufferGotData
    \/ \E t \in TaskIds, status \in Statuses : OnPartialDataFetched(t, status)
    \/ RunWriteBlock
    \/ Tick(WebseedTimes)

SpecIdle == InitIdle /\ [][NextIdle]_vars

(***************************************************************************)
(* One task at a time over a transport that is fair: a fetch that was      *)
(* issued completes, a buffer callback that has read its flags goes on to  *)
(* take the lock, and the session thread runs the work queued to it.  The  *)
(* torrent stays in the session.                                           *)
(***************************************************************************)
InitLive == InitWith({ <<3, 2>> }, 1, ChunkQueue, ChunkFailures, 0)

Completion == \E t \in TaskIds, status \in Statuses : OnPartialDataFetched(t, status)

NextLive ==
    \/ \E spans \in SpanSeqs : RequestBlocks(spans)
    \/ \E t \in TaskIds : \E n \in 0 .. total_size(files) : WebData(t, n)
    \/ OnBufferGotData
    \/ Completion
    \/ RunWriteBlock
    \/ Destroy

SpecLive ==
    /\ InitLive
    /\ [][NextLive]_vars
    /\ WF_vars(Completion)
    /\ WF_vars(OnBufferGotData)
    /\ WF_vars(RunWriteBlock)

(***************************************************************************)
(* The claims about the ConnectionLimiter, under SpecLimiter.              *)
(***************************************************************************)
\* the instant the pause set by the latest failure ends at
CooldownEnd == hist.lastFailAt + 120

\* C1: from a fresh limiter, once four tasks have failed with no data in
\* between and nothing is outstanding, slotsAvailable() is 0 at every instant
\* before the fourth failure's time + 120 s, and exactly 1 from that instant on.
C1_FourFailuresThenOneSlot ==
    (lim.n_consecutive_failures = 4 /\ lim.n_tasks = 0)
        => slotsAvailable(lim, now) = (IF now < CooldownEnd THEN 0 ELSE 1)

\* C1's case: the cooldown of four failures has just elapsed and one slot is reported
C1_Witness ==
    /\ lim.n_consecutive_failures = 4
    /\ lim.n_tasks = 0
    /\ now = CooldownEnd
    /\ out.op = "slotsAvailable"
    /\ out.io = <<1>>

\* C2 as stated: once the failure count has reached 4, slotsAvailable() is 0
\* until the cooldown elapses and the healthy ceiling, max(0, 4 - outstanding),
\* afterwards.
C2_Original ==
    lim.n_consecutive_failures >= 4
        => slotsAvailable(lim, now) =
               (IF now < CooldownEnd THEN 0 ELSE Max(0, 4 - lim.n_tasks))

\* C2 as amended: once the failure count has reached 4, slotsAvailable() is 0
\* until the cooldown of the latest failure elapses, and max(0, 1 - outstanding)
\* afterwards: one connection at a time until data arrives.
C2_CooldownThenSingleSlot ==
    lim.n_consecutive_failures >= 4
        => slotsAvailable(lim, now) =
               (IF now < CooldownEnd THEN 0 ELSE Max(0, 1 - lim.n_tasks))

\* C2's case: five failures in a row, the cooldown over, nothing outstanding
C2_Witness ==
    /\ lim.n_consecutive_failures = 5
    /\ lim.n_tasks = 0
    /\ now > CooldownEnd
    /\ out.op = "slotsAvailable"

\* C3: gotData(), in whatever state it finds the limiter, leaves the failure
\* count at 0 and the pause cleared and the outstanding count as it was, so
\* that slotsAvailable() is max(0, 4 - outstanding) right after it.
C3_GotDataResets ==
    [][CallGotData =>
          /\ lim'.n_consecutive_failures = 0
          /\ lim'.paused_until = 0
          /\ lim'.n_tasks = lim.n_tasks
          /\ slotsAvailable(lim', now') = Max(0, 4 - lim.n_tasks)]_vars

\* C3's case: gotData() was called on a paused limiter with tasks outstanding
C3_Witness ==
    /\ out.op = "gotData"
    /\ out.io = <<TRUE>>
    /\ lim.n_tasks > 0
    /\ now < CooldownEnd

\* C4: in every state of the limiter slotsAvailable() is 0 while the pause
\* timestamp is strictly in the future, and otherwise max(0, cap - outstanding)
\* with cap 1 after a failure and 4 without; never a wrapped-around value.
C4_SlotsAvailableValue ==
    LET capacity == IF lim.n_consecutive_failures > 0 THEN 1 ELSE 4
    IN  slotsAvailable(lim, now) =
            (IF lim.paused_until > now THEN 0 ELSE Max(0, capacity - lim.n_tasks))

\* C4's case: more tasks outstanding than the throttled cap, no pause, answer 0
C4_Witness ==
    /\ lim.n_consecutive_failures > 0
    /\ lim.n_tasks > 1
    /\ lim.paused_until <= now
    /\ out.op = "slotsAvailable"
    /\ out.io = <<0>>

\* C34: taskFinished(true) takes one off the outstanding count and changes
\* nothing else: the failure count and the pause timestamp stay, and with them
\* the single-connection throttle and the pause.  taskStarted() adds one to the
\* outstanding count and changes nothing else.
C34_CountOnly ==
    [][/\ CallTaskFinished(TRUE)
           => /\ lim' = [lim EXCEPT !.n_tasks = lim.n_tasks - 1]
              /\ maxConnections(lim') = maxConnections(lim)
              /\ isPaused(lim', now') = isPaused(lim, now)
       /\ CallTaskStarted
           => lim' = [lim EXCEPT !.n_tasks = lim.n_tasks + 1]]_vars

\* C34's case: a task finished with success on a limiter that is paused after
\* repeated failures, and the limiter is still throttled and paused
C34_Witness ==
    /\ out.op = "taskFinished(true)"
    /\ lim.n_consecutive_failures >= MaxConsecutiveFailures
    /\ isPaused(lim, now)
    /\ slotsAvailable(lim, now) = 0
    /\ lim.n_tasks = 0

(***************************************************************************)
(* The claims about the webseed's handlers, under Spec.                    *)
(***************************************************************************)
\* the fetches in flight that the limiter counts
Outstanding ==
    { t \in TaskIds : task[t].st = "used" /\ ~task[t].dead /\ task[t].req.active }

\* the torrent is gone, not running, or complete
TorrentUnusable == tor = "gone" \/ tor # "running" \/ have = Blocks(files)

\* every variable but out
state == <<now, lim, files, tor, have, alive, tasks, task, web, runq, cap, hist, faults>>

\* C5: under every interleaving of requestBlocks, idle ticks, buffer callbacks,
\* completions and teardown, taskFinished() is applied only with a task
\* outstanding: its assertion never fails, and the count never wraps but stays
\* the number of fetches in flight.
C5_OutstandingNeverNegative ==
    /\ "taskFinished: n_tasks > 0" \notin faults
    /\ alive => lim.n_tasks = Cardinality(Outstanding)

\* C5's case: two tasks' completions were handled after the torrent was
\* removed, which brought the count down to 0
C5_Witness ==
    /\ out.op = "onPartialDataFetched"
    /\ alive
    /\ tor = "gone"
    /\ Cardinality(tasks) = 2
    /\ lim.n_tasks = 0

\* C6: requestBlocks() on a torrent that is gone, not running or complete
\* changes nothing: no task, no change of the active set or the limiter, no
\* fetch, no sent-requests notification.
C6_RequestBlocksNoOp ==
    [][(out'.op = "requestBlocks" /\ TorrentUnusable)
          => /\ UNCHANGED state
             /\ out'.fetch = <<>>
             /\ out'.sent = <<>>
             /\ out'.ev = <<>>]_vars

\* C6's case: requestBlocks() was called with spans on a stopped torrent
C6_Witness ==
    /\ out.op = "requestBlocks"
    /\ out.io # <<>>
    /\ tor = "stopped"
    /\ out.sent = <<>>

\* C7: requestBlocks() with n spans on a running, incomplete torrent creates one
\* task per span, its cursor at the span's first block, adds it to the active
\* set, issues one fetch per task (the outstanding count rises by n), and
\* notifies the peer manager once per span, whatever the limiter's slots.
C7_RequestBlocksOneTaskPerSpan ==
    [][(out'.op = "requestBlocks" /\ ~TorrentUnusable)
          => LET spans == out'.io
                 n == Len(spans)
                 new == tasks' \ tasks
             IN  /\ tasks \subseteq tasks'
                 /\ Cardinality(new) = n
                 /\ lim' = [lim EXCEPT !.n_tasks = lim.n_tasks + n]
                 /\ Len(out'.fetch) = n
                 /\ out'.sent = spans
                 /\ \A i \in 1 .. n :
                        LET t == out'.fetch[i].t
                        IN  /\ t \in new
                            /\ task[t].st = "free"
                            /\ task'[t].begin = spans[i].begin
                            /\ task'[t].end = spans[i].end
                            /\ task'[t].loc = spans[i].begin * BlockSize
                            /\ task'[t].buf = 0
                            /\ ~task'[t].dead
                            /\ task'[t].req.active
                 /\ \A i, j \in 1 .. n : i # j => out'.fetch[i].t # out'.fetch[j].t
                 /\ \A t \in TaskIds \ new : task'[t] = task[t]]_vars

\* C7's case: two tasks were started while the limiter was paused
C7_Witness ==
    /\ out.op = "requestBlocks"
    /\ Len(out.sent) = 2
    /\ Len(out.fetch) = 2
    /\ isPaused(lim, now)

\* C8: canRequest() answers (0, 0) when the limiter has no slot or the torrent
\* is gone, not running or complete, and (s, 64 * s) otherwise, s being
\* slotsAvailable(); it changes no state.
C8_CanRequestAnswer ==
    [][out'.op = "canRequest"
          => /\ out'.io = LET s == slotsAvailable(lim, now)
                          IN  IF s = 0 \/ TorrentUnusable THEN <<0, 0>>
                              ELSE <<s, 64 * s>>
             /\ UNCHANGED state]_vars

\* C8's case: one task outstanding on a healthy limiter, three slots offered
C8_Witness ==
    /\ out.op = "canRequest"
    /\ out.io = <<3, 192>>
    /\ lim.n_tasks = 1

(***************************************************************************)
(* The claims about the chunking protocol, under SpecChunk.                *)
(***************************************************************************)
\* the torrent byte a fetch's range starts at
RangeStart(r) == file_begin(files, r.file) + r.off

\* task t's completion was handled and the same task went on with a next chunk
Continued(t) ==
    /\ out'.op = "onPartialDataFetched"
    /\ out'.io[1] = t
    /\ ~out'.idle
    /\ out'.fetch # <<>>

\* task t was created in this step
Created(t) == task[t].st = "free" /\ task'[t].st = "used"

\* task t's completion was handled and the task retired at end_byte
Retired(t) ==
    /\ out'.op = "onPartialDataFetched"
    /\ out'.io = <<t, 206>>
    /\ out'.idle

\* what C9 says of every range: it starts where the task starts, it lies in
\* one file, the HTTP range is [offset, offset + chunk - 1], and the range in
\* flight at retirement ends at end_byte
RangesWellFormed ==
    /\ \A t \in TaskIds :
           Created(t) => RangeStart(task'[t].req) = task'[t].begin * BlockSize
    /\ \A t \in TaskIds :
           Retired(t) => RangeStart(task[t].req) + task[t].req.len = task[t].end_byte
    /\ \A t \in TaskIds :
           task'[t].req.active
               => /\ task'[t].req.off + task'[t].req.len <= files[task'[t].req.file]
                  /\ RangeStart(task'[t].req) + task'[t].req.len <= task'[t].end_byte
    /\ \A i \in 1 .. Len(out'.fetch) :
           LET f == out'.fetch[i]
               r == task'[f.t].req
           IN  /\ f.file = r.file
               /\ f.first = r.off
               /\ f.last = r.off + r.len - 1

C10_ChunkNeverEmpty ==
    /\ "this_chunk > 0" \notin faults
    /\ \A t \in TaskIds : task[t].req.active => task[t].req.len > 0
    /\ \A i \in 1 .. Len(out.fetch) : out.fetch[i].last >= out.fetch[i].first

\* C10's case: a 206 response fell short, and the task asked for the rest of the
\* same file while bytes of an incomplete block stay buffered
C10_Witness ==
    /\ out.op = "onPartialDataFetched"
    /\ ~out.idle
    /\ \E t \in TaskIds :
           /\ out.io = <<t, 206>>
           /\ task[t].req.active
           /\ task[t].req.off > 0
           /\ task[t].buf > 0
           /\ task[t].loc > task[t].begin * BlockSize

(***************************************************************************)
(* The claims about completions and teardown.                              *)
(***************************************************************************)
\* the GotRejected events for the blocks b .. e - 1, in order
Rejections(b, e) == [i \in 1 .. Max(0, e - b) |-> [e |-> "GotRejected", arg |-> b + i - 1]]

\* the completion of task t's fetch was handled in this step, with this status
Completed(t, status) == out'.op = "onPartialDataFetched" /\ out'.io = <<t, status>>

\* C11: when the fetch of a task that is not dead ends with a status other
\* than 206 and the torrent is still there, the limiter is told
\* taskFinished(false), GotRejected is published for each block from the cursor's
\* block to the span's end and for no other, the task leaves the active set
\* and is freed, and no fetch is issued.
C11_FailureRejectsRemainingBlocks ==
    [][\A t \in TaskIds :
           (Completed(t, 404) /\ ~task[t].dead /\ tor # "gone")
               => /\ lim'.n_tasks = lim.n_tasks - 1
                  /\ lim'.n_consecutive_failures = lim.n_consecutive_failures + 1
                  /\ out'.ev = Rejections(task[t].loc \div BlockSize, task[t].end)
                  /\ \A i \in 1 .. Len(out'.ev) : out'.ev[i].arg >= task[t].loc \div BlockSize
                  /\ tasks' = tasks \ {t}
                  /\ task'[t].st = "free"
                  /\ out'.fetch = <<>>
                  /\ runq' = runq]_vars

\* C11's case: a fetch failed after the task had consumed its first block, and
\* only the blocks from the cursor on were rejected
C11_Witness ==
    /\ out.op = "onPartialDataFetched"
    /\ Len(out.io) = 2
    /\ out.io[2] = 404
    /\ out.ev = Rejections(1, 3)
    /\ runq = <<[block |-> 0]>>
    /\ tasks = {}

\* C12 as stated: the destructor marks every active task dead and empties the
\* active set, and from then on no buffer callback and no completion of those
\* tasks publishes an event, writes to the cache, or touches the destructed
\* webseed (its limiter, its active set); a completion only frees its task.
C12_DeadTasksInert ==
    [][/\ (alive /\ ~alive')
           => /\ tasks' = {}
              /\ \A t \in tasks : task'[t].dead
       /\ (~alive /\ out'.op \in {"onBufferGotData", "onPartialDataFetched"})
           => /\ lim' = lim
              /\ tasks' = tasks
              /\ runq' = runq
              /\ faults' = faults
              /\ out'.ev = <<>>
              /\ out'.fetch = <<>>
              /\ \A t \in TaskIds :
                     task'[t] = IF Completed(t, 206) \/ Completed(t, 404) THEN NoTask
                                ELSE task[t]]_vars

\* C13: a buffer callback with no bytes added, or for a dead task, returns at
\* once: no event, the limiter untouched.  One with bytes for a task that is
\* not dead takes the lock and calls gotPieceData: exactly one GotPieceData
\* with the number of bytes added is published and the limiter's gotData is
\* applied, the failure count and the pause cleared.
C13_BufferCallback ==
    [][/\ \A t \in TaskIds :
              (task[t].st = "used" /\ task'[t].st = "used" /\ task'[t].buf > task[t].buf)
                  => /\ lim' = lim
                     /\ out'.ev = <<>>
                     /\ web' = IF task[t].dead THEN NoCb
                               ELSE [t |-> t, n |-> task'[t].buf - task[t].buf]
       /\ (out'.op = "onBufferGotData" /\ alive)
              => /\ out'.ev = <<[e |-> "GotPieceData", arg |-> web.n]>>
                 /\ lim' = [lim EXCEPT !.n_consecutive_failures = 0, !.paused_until = 0]
                 /\ web.n > 0
                 /\ ~task[web.t].dead]_vars

\* C13's case: with two fetches in flight, bytes arrived for one of them and
\* the callback published them and reset the limiter
C13_Witness ==
    /\ out.op = "onBufferGotData"
    /\ out.ev = <<[e |-> "GotPieceData", arg |-> 1]>>
    /\ lim = [n_tasks |-> 2, n_consecutive_failures |-> 0, paused_until |-> 0]
    /\ alive

\* the hand-offs a drain queues: one for each drained block that was no duplicate
Handoffs(drained) ==
    LET fresh == SelectSeq(drained, LAMBDA d : ~d.dup)
    IN  [i \in 1 .. Len(fresh) |-> [block |-> fresh[i].block]]

\* C14: a completion never writes a block to the cache or publishes GotBlock
\* itself: for each block it drains that the torrent does not have it queues
\* one hand-off for the session thread, in order, and none for a duplicate.
\* When the hand-off runs and the torrent is there, the block is written to the
\* cache first and GotBlock for that block is published after it; when the
\* torrent is gone neither happens.
C14_BlockHandedOffThenPublished ==
    [][/\ out'.op # "write_block_func"
           => \A i \in 1 .. Len(out'.ev) : out'.ev[i].e \notin {"write_block", "GotBlock"}
       /\ out'.op = "onPartialDataFetched"
           => /\ runq' = runq \o Handoffs(out'.drained)
              /\ \A i \in 1 .. Len(out'.drained) :
                     out'.drained[i].dup = (out'.drained[i].block \in have)
       /\ out'.op = "write_block_func"
           => LET b == Head(runq).block
              IN  /\ runq' = Tail(runq)
                  /\ tor = "gone" => out'.ev = <<>>
                  /\ tor # "gone" => out'.ev[1] = [e |-> "write_block", arg |-> b]
                  /\ (tor # "gone" /\ alive)
                         => out'.ev = << [e |-> "write_block", arg |-> b],
                                         [e |-> "GotBlock", arg |-> b] >>
                  /\ \A i \in 1 .. Len(out'.ev) :
                         out'.ev[i].e = "GotBlock"
                             => /\ i > 1
                                /\ out'.ev[i - 1] = [e |-> "write_block", arg |-> out'.ev[i].arg]]_vars

\* C14's case: a hand-off queued by a drain was run by the session thread,
\* which wrote the block and then published GotBlock
C14_Witness ==
    /\ out.op = "write_block_func"
    /\ out.ev = << [e |-> "write_block", arg |-> 0], [e |-> "GotBlock", arg |-> 0] >>
    /\ 0 \in have

\* C15 as stated: a completion of a task that is not dead, handled while the
\* torrent is gone, stopped or complete, is dropped: nothing is drained or
\* handed off, no next chunk is issued, no event is published.
C15_Original ==
    [][\A t \in TaskIds :
           ((Completed(t, 206) \/ Completed(t, 404)) /\ ~task[t].dead /\ TorrentUnusable)
               => /\ out'.drained = <<>>
                  /\ runq' = runq
                  /\ out'.fetch = <<>>
                  /\ out'.ev = <<>>]_vars

\* C15 as amended: only a torrent that is gone makes the completion stop short:
\* the limiter is told the task finished and nothing else happens, the task
\* staying in the active set, not freed.  With the torrent stopped or complete
\* the completion is handled as ever: a failure rejects the remaining blocks
\* and removes the task, a success drains every buffered whole block, handing
\* off those the torrent lacks, and then issues the next chunk or retires the
\* task.
C15_AbortOnlyWhenTorrentGone ==
    [][\A t \in TaskIds :
           /\ ((Completed(t, 206) \/ Completed(t, 404)) /\ ~task[t].dead /\ tor = "gone")
                  => /\ out'.drained = <<>>
                     /\ runq' = runq
                     /\ out'.fetch = <<>>
                     /\ out'.ev = <<>>
                     /\ lim'.n_tasks = lim.n_tasks - 1
                     /\ tasks' = tasks
                     /\ task' = [task EXCEPT ![t].req = NoReq]
           /\ (Completed(t, 404) /\ ~task[t].dead /\ tor # "gone" /\ TorrentUnusable)
                  => /\ out'.ev = Rejections(task[t].loc \div BlockSize, task[t].end)
                     /\ task'[t].st = "free"
           /\ (Completed(t, 206) /\ ~task[t].dead /\ tor # "gone" /\ TorrentUnusable)
                  => /\ (task[t].buf >= block_size(files, task[t].loc \div BlockSize))
                         => /\ out'.drained # <<>>
                            /\ out'.drained[1].block = task[t].loc \div BlockSize
                            /\ runq' = runq \o Handoffs(out'.drained)
                     /\ IF task[t].loc + task[t].buf < task[t].end_byte
                        THEN /\ Len(out'.fetch) = 1
                             /\ task'[t].req.active
                        ELSE /\ task'[t].st = "free"
                             /\ t \notin tasks'
                             /\ out'.idle
                             /\ out'.fetch = <<>>]_vars

\* C15's case: a fetch ended with 206 while the torrent was stopped, and its
\* block was drained and handed off all the same
C15_Witness ==
    /\ out.op = "onPartialDataFetched"
    /\ tor = "stopped"
    /\ out.drained = <<[block |-> 0, dup |-> FALSE]>>
    /\ runq # <<>>
    /\ out.idle

\* C17: activeReqCount is 0 for the direction from the webseed to the client,
\* and for the direction from the client to the webseed it is the number of
\* blocks in the spans of the tasks in the active set, each span counted whole
\* however far its task's cursor has moved.
C17_ActiveReqCount ==
    /\ activeReqCount("TR_PEER_TO_CLIENT") = 0
    /\ activeReqCount("TR_CLIENT_TO_PEER") =
           Cardinality({ p \in tasks \X Blocks(files) :
                           task[p[1]].begin <= p[2] /\ p[2] < task[p[1]].end })
    /\ \A t \in tasks : task[t].st = "used"

\* C17's case: a task over three blocks has consumed its first block and still
\* counts for three
C17_Witness ==
    /\ \E t \in tasks :
           /\ task[t].end - task[t].begin = 3
           /\ task[t].loc > task[t].begin * BlockSize
    /\ activeReqCount("TR_CLIENT_TO_PEER") = 3

(***************************************************************************)
(* The claims about the cursor and the drain, under SpecChunk.             *)
(***************************************************************************)
\* slot t holds the same task before and after the step
SameTask(t) == task[t].st = "used" /\ task'[t].st = "used" /\ ~Retired(t)

\* the bytes of the blocks a drain consumed
RECURSIVE DrainedBytes(_)
DrainedBytes(drained) ==
    IF drained = <<>> THEN 0
    ELSE block_size(files, Head(drained).block) + DrainedBytes(Tail(drained))

\* C18: a task's cursor never moves back and never passes end_byte, and the
\* assertion after each drained block holds, also when several blocks are
\* drained by one completion and when the span crosses from file to file.
C18_CursorMonotoneAndBounded ==
    [][/\ \A t \in TaskIds : SameTask(t) => task'[t].loc >= task[t].loc
       /\ \A t \in TaskIds :
              task'[t].st = "used"
                  => /\ task'[t].begin * BlockSize <= task'[t].loc
                     /\ task'[t].loc <= task'[t].end_byte
       /\ \A t \in TaskIds :
              Retired(t) => task[t].loc + DrainedBytes(out'.drained) = task[t].end_byte
       /\ "loc.byte <= end_byte" \notin faults']_vars

\* C18's case: past the boundary between the files, one completion drained
\* two blocks and brought the cursor to end_byte
C18_Witness ==
    /\ out.op = "onPartialDataFetched"
    /\ out.idle
    /\ files = <<3, 2>>
    /\ Len(out.drained) = 2
    /\ out.drained[1].block = 1

\* C19: a task's cursor is at end_byte or at the first byte of a block.  It
\* moves only when a completion drains blocks, by the bytes of those blocks,
\* all of which were in the buffer; the bytes of a block not yet complete
\* stay in the buffer and the cursor stays before them.
C19_CursorAtBlockBoundary ==
    [][/\ \A t \in TaskIds :
              task'[t].st = "used"
                  => \/ task'[t].loc = task'[t].end_byte
                     \/ task'[t].loc % BlockSize = 0
       /\ \A t \in TaskIds :
              (SameTask(t) /\ task'[t].loc # task[t].loc)
                  => /\ out'.op = "onPartialDataFetched"
                     /\ out'.io = <<t, 206>>
                     /\ task'[t].loc = task[t].loc + DrainedBytes(out'.drained)
                     /\ task'[t].buf = task[t].buf - DrainedBytes(out'.drained)
                     /\ task'[t].buf >= 0
                     /\ task'[t].buf < block_size(files, task'[t].loc \div BlockSize)
       /\ "loc.byte == end_byte || loc.block_offset == 0" \notin faults']_vars

\* C19's case: a completion drained a block and left the first byte of the
\* next block in the buffer, the cursor at that block's start
C19_Witness ==
    /\ out.op = "onPartialDataFetched"
    /\ out.drained = <<[block |-> 0, dup |-> FALSE]>>
    /\ \E t \in tasks :
           /\ task[t].loc = BlockSize
           /\ task[t].buf = 1
           /\ task[t].loc < task[t].end_byte

\* C20: the blocks one completion drains, handed off or discarded as
\* duplicates, are the consecutive blocks from the cursor's block on, none
\* skipped and none repeated, and the cursor is left at the block after the
\* last of them, where the task's next drain starts.
C20_BlocksInAscendingOrder ==
    [][\A t \in TaskIds :
           (Completed(t, 206) /\ ~task[t].dead)
               => /\ \A i \in 1 .. Len(out'.drained) :
                         out'.drained[i].block = (task[t].loc \div BlockSize) + i - 1
                  /\ \A i \in 1 .. Len(out'.drained) : out'.drained[i].block < task[t].end
                  /\ SameTask(t)
                         => task'[t].loc = ((task[t].loc \div BlockSize) + Len(out'.drained)) * BlockSize]_vars

\* C20's case: one completion consumed two blocks in a row, the first a
\* duplicate that was discarded, the second handed off
C20_Witness ==
    /\ out.op = "onPartialDataFetched"
    /\ out.drained = <<[block |-> 1, dup |-> TRUE], [block |-> 2, dup |-> FALSE]>>

\* a 206 completion of task t, not dead, was handled with the torrent there
Drained(t) == Completed(t, 206) /\ ~task[t].dead /\ tor # "gone"

C22_RetirementRunsIdleLogic ==
    [][\A t \in TaskIds :
           /\ (Drained(t) /\ task[t].loc + DrainedBytes(out'.drained) = task[t].end_byte)
                  => LET after == [lim EXCEPT !.n_tasks = lim.n_tasks - 1]
                         reused == \E i \in 1 .. Len(out'.fetch) : out'.fetch[i].t = t
                     IN  /\ out'.idle
                         /\ reused \/ (t \notin tasks' /\ task'[t].st = "free")
                         /\ Len(out'.sent) = Len(out'.fetch)
                         /\ Len(out'.fetch) <= canRequest(after)[1]
                         /\ lim' = [after EXCEPT !.n_tasks = after.n_tasks + Len(out'.fetch)]
                         /\ \A i \in 1 .. Len(out'.fetch) :
                                /\ out'.fetch[i].t \in tasks'
                                /\ out'.fetch[i].t \notin tasks \ {t}
           /\ (Completed(t, 404) /\ ~task[t].dead)
                  => /\ ~out'.idle
                     /\ out'.fetch = <<>>
                     /\ out'.sent = <<>>]_vars

\* C22's case: the only fetch in flight of a throttled webseed succeeded, and
\* the retirement itself started the next task in the slot that had just
\* come free in the limiter
C22_Witness ==
    /\ out.op = "onPartialDataFetched"
    /\ out.idle
    /\ Len(out.fetch) = 1
    /\ lim.n_consecutive_failures = 1
    /\ lim.n_tasks = 1
    /\ Cardinality(tasks) = 1

\* a drain's entries for the blocks the torrent already had
Duplicates(drained) == SelectSeq(drained, LAMBDA d : d.dup)

\* C23: a whole buffered block at the cursor that the torrent already has is
\* discarded: no hand-off is queued for it and nothing is published; the cursor
\* moves on and the buffer shrinks by that block's size all the same, as for
\* a block that is handed off.
C23_DuplicateDiscarded ==
    [][\A t \in TaskIds :
           Drained(t)
               => /\ \A i \in 1 .. Len(out'.drained) :
                         out'.drained[i].dup = (out'.drained[i].block \in have)
                  /\ Len(runq') = Len(runq) + Len(out'.drained) - Len(Duplicates(out'.drained))
                  /\ \A i \in 1 .. Len(Duplicates(out'.drained)) :
                         \A j \in Len(runq) + 1 .. Len(runq') :
                             runq'[j].block # Duplicates(out'.drained)[i].block
                  /\ \A i \in 1 .. Len(out'.ev) : out'.ev[i].e # "GotBlock"
                  /\ SameTask(t)
                         => /\ task'[t].loc = task[t].loc + DrainedBytes(out'.drained)
                            /\ task'[t].buf = task[t].buf - DrainedBytes(out'.drained)
                  /\ (task[t].buf >= block_size(files, task[t].loc \div BlockSize))
                         => out'.drained # <<>>]_vars

\* C23's case: the block at the cursor was a duplicate: it was drained, nothing
\* was queued, and the task went on from the next block
C23_Witness ==
    /\ out.op = "onPartialDataFetched"
    /\ out.drained = <<[block |-> 0, dup |-> TRUE]>>
    /\ runq = <<>>
    /\ \E t \in tasks : task[t].begin = 0 /\ task[t].loc = BlockSize /\ task[t].req.active

\* C24: an idle tick that finds canRequest() at zero does nothing.  Otherwise it
\* asks the peer manager, which answers with at most max_blocks blocks, keeps
\* the first max_spans of the spans it is given and drops the rest, and calls
\* requestBlocks on those: one tick starts at most slotsAvailable() tasks.
C24_IdleTick ==
    [][out'.op = "on_idle"
          => LET limit == canRequest(lim)
             IN  IF limit[1] = 0 \/ limit[2] = 0
                 THEN /\ UNCHANGED state
                      /\ out'.pm = <<>>
                      /\ out'.sent = <<>>
                      /\ out'.fetch = <<>>
                 ELSE /\ SpanBlocks(out'.pm) <= limit[2]
                      /\ out'.sent = SubSeq(out'.pm, 1, Min(Len(out'.pm), limit[1]))
                      /\ Len(out'.fetch) = Len(out'.sent)
                      /\ Len(out'.fetch) <= slotsAvailable(lim, now)
                      /\ Cardinality(tasks' \ tasks) = Len(out'.sent)
                      /\ tasks \subseteq tasks'
                      /\ lim'.n_tasks = lim.n_tasks + Len(out'.sent)]_vars

\* C24's case: the peer manager gave two spans to a webseed throttled to one
\* connection, and the tick started a task for the first of them only
C24_Witness ==
    /\ out.op = "on_idle"
    /\ out.io = <<1, 64>>
    /\ Len(out.pm) = 2
    /\ Len(out.sent) = 1
    /\ Len(out.fetch) = 1

\* the bytes of task tk's span
SpanBytes(tk) == tk.end_byte - tk.begin * BlockSize

\* the bytes of task tk's span all lie in one file
InOneFile(tk) ==
    file_index(files, tk.begin * BlockSize) = file_index(files, tk.end_byte - 1)

\* the blocks b .. e - 1 as a drain that discarded none of them reports them
AllFresh(b, e) == [i \in 1 .. e - b |-> [block |-> b + i - 1, dup |-> FALSE]]

\* C25: a span inside one file gets exactly one request, for all its bytes.
\* When that request ends with 206 having delivered them all, and the torrent
\* has none of the span's blocks, each block of the span is handed off once, in
\* order, the task goes on with no further request but is retired, and the
\* idle logic runs.
C25_SpanInOneFile ==
    [][\A t \in TaskIds :
           /\ (Created(t) /\ InOneFile(task'[t]))
                  => /\ Cardinality({ i \in 1 .. Len(out'.fetch) : out'.fetch[i].t = t }) = 1
                     /\ task'[t].req.len = SpanBytes(task'[t])
                     /\ RangeStart(task'[t].req) = task'[t].begin * BlockSize
           /\ (/\ Drained(t)
               /\ InOneFile(task[t])
               /\ task[t].req.got = SpanBytes(task[t])
               /\ \A b \in task[t].begin .. task[t].end - 1 : b \notin have)
                  => /\ out'.drained = AllFresh(task[t].begin, task[t].end)
                     /\ runq' = runq \o Handoffs(out'.drained)
                     /\ Len(Handoffs(out'.drained)) = task[t].end - task[t].begin
                     /\ out'.idle
                     /\ Len(out'.fetch) = Len(out'.sent)
                     /\ \/ t \notin tasks' /\ task'[t].st = "free"
                        \/ \E i \in 1 .. Len(out'.fetch) : out'.fetch[i].t = t]_vars

\* C25's case: the two blocks of a span inside the first file arrived with one
\* response, both were handed off and the task was retired
C25_Witness ==
    /\ out.op = "onPartialDataFetched"
    /\ files = <<4, 1>>
    /\ out.drained = AllFresh(0, 2)
    /\ out.idle
    /\ Len(runq) >= 2

\* what C26 says of a span that straddles a file boundary, but for where the
\* second request starts: the first request is for the rest of the first file
\* from the span's start; a 206 completion that leaves the cursor short of
\* end_byte makes the same task, still in the active set, issue the next
\* request; the bytes of an incomplete block stay buffered, and only whole
\* blocks are handed off.
StraddlingSpan ==
    \A t \in TaskIds :
        /\ (Created(t) /\ ~InOneFile(task'[t]))
               => /\ RangeStart(task'[t].req) = task'[t].begin * BlockSize
                  /\ task'[t].req.off + task'[t].req.len = files[task'[t].req.file]
        /\ (/\ Drained(t)
            /\ ~InOneFile(task[t])
            /\ task[t].loc + DrainedBytes(out'.drained) < task[t].end_byte)
               => /\ Continued(t)
                  /\ SameTask(t)
                  /\ t \in tasks /\ t \in tasks'
                  /\ task'[t].begin = task[t].begin /\ task'[t].end = task[t].end
                  /\ out'.sent = <<>>
                  /\ DrainedBytes(out'.drained) <= task[t].buf
                  /\ task'[t].buf = task[t].buf - DrainedBytes(out'.drained)
                  /\ runq' = runq \o Handoffs(out'.drained)

C27_CallbacksUnderLock ==
    web # NoCb => (alive /\ ~task[web.t].dead)

\* C28 as stated: between the handlers of a live webseed the limiter counts
\* exactly the tasks of the active set, and each of them has its one request
\* in flight, also after a completion handled while the torrent is gone.
C28_OutstandingIsActiveSet ==
    alive => /\ lim.n_tasks = Cardinality(tasks)
             /\ \A t \in tasks : task[t].st = "used" /\ task[t].req.active

\* C30 as stated, in the case it names: a write handoff that was queued
\* before the teardown and runs after it, with the torrent still there, does
\* not publish GotBlock through the destroyed webseed.
C30_NoPublishAfterDestroy ==
    "publish on a destructed tr_webseed" \notin faults

\* the block the cursor of a task that has not finished is in
CursorBlock(tk) == tk.loc \div BlockSize

\* C32: each block of the span of a task that is not dead and leaves the
\* active set with the torrent there has had exactly one outcome.  A task
\* starts with its cursor at the span's first block; only a drain moves the
\* cursor; a drain takes the blocks from the cursor's on, one after the other,
\* each once, hands off those the torrent lacks, once each, rejects none, and
\* leaves the cursor at the block after the last one drained, so that the
\* blocks below the cursor are the drained ones.  The task leaves by retiring,
\* when the drained blocks reach the span's end, or by a failure, which drains
\* and hands off nothing and publishes GotRejected once for each block from the
\* cursor's to the span's end.
C32_EveryBlockOneOutcome ==
    [][\A t \in TaskIds :
           /\ Created(t) => CursorBlock(task'[t]) = task'[t].begin
           /\ (SameTask(t) /\ ~Drained(t)) => task'[t].loc = task[t].loc
           /\ Drained(t)
                  => /\ \A i \in 1 .. Len(out'.drained) :
                            out'.drained[i].block = CursorBlock(task[t]) + i - 1
                     /\ runq' = runq \o Handoffs(out'.drained)
                     /\ out'.ev = <<>>
                     /\ CursorBlock(task[t]) + Len(out'.drained) <= task[t].end
                     /\ IF CursorBlock(task[t]) + Len(out'.drained) = task[t].end
                        THEN Retired(t)
                        ELSE /\ SameTask(t)
                             /\ t \in tasks'
                             /\ CursorBlock(task'[t]) = CursorBlock(task[t]) + Len(out'.drained)
           /\ (Completed(t, 404) /\ ~task[t].dead /\ tor # "gone")
                  => /\ out'.drained = <<>>
                     /\ runq' = runq
                     /\ out'.ev = Rejections(CursorBlock(task[t]), task[t].end)
                     /\ CursorBlock(task[t]) < task[t].end
                     /\ t \notin tasks'
           /\ (t \in tasks /\ ~task[t].dead /\ tor # "gone" /\ (t \notin tasks' \/ Retired(t)))
                  => \/ Completed(t, 404)
                     \/ Drained(t) /\ Retired(t)]_vars

\* C32's case: a task retired at the end of a span that crosses from the first
\* file to the second, and each of the three blocks has been handed off once,
\* the first by an earlier completion, the other two by the last one
C32_Witness ==
    /\ out.op = "onPartialDataFetched"
    /\ out.idle
    /\ files = <<3, 2>>
    /\ out.drained = AllFresh(1, 3)
    /\ runq = <<[block |-> 0], [block |-> 1], [block |-> 2]>>
    /\ have = {}
    /\ tasks = {}

\* C33: the assertion in gotData never fails.  When the buffer callback, having
\* found bytes added and the task not dead, reaches gotPieceData, that task's
\* fetch is in flight and counted: the limiter's count is above zero, whatever
\* completions of other tasks were handled in between; on a webseed that
\* exists the task is in the active set.
C33_GotDataWhileOutstanding ==
    /\ []("gotData: n_tasks > 0" \notin faults)
    /\ [][out'.op = "onBufferGotData"
             => /\ lim.n_tasks > 0
                /\ task[web.t].st = "used"
                /\ task[web.t].req.active
                /\ alive => (web.t \in tasks /\ web.t \in Outstanding)]_vars

\* C33's case: two fetches were in flight, the first task's completion was
\* handled and the task freed, and then bytes of the second task's fetch were
\* published, with that one fetch counted
C33_Witness ==
    /\ out.op = "onBufferGotData"
    /\ out.io = <<2>>
    /\ out.ev # <<>>
    /\ task[1].st = "free"
    /\ tasks = {2}
    /\ lim.n_tasks = 1

(***************************************************************************)
(* The claims about a failing webseed, under SpecFailing.                  *)
(***************************************************************************)
\* an idle tick that finds the limiter without a slot starts no fetch
IdleTickStartsNothing ==
    [][(out'.op = "on_idle" /\ isPaused(lim, now)) => (out'.fetch = <<>> /\ UNCHANGED state)]_vars

\* C16 as stated: once a completion has failed canRequest() offers at most
\* one span, and once four completions in a row have failed it offers nothing
\* until 120 s after the latest failure, so idle ticks start nothing meanwhile.
C16_Original ==
    /\ [](hist.fails >= 1 => canRequest(lim)[1] <= 1)
    /\ []((hist.fails >= 4 /\ now < CooldownEnd) => canRequest(lim) = <<0, 0>>)
    /\ IdleTickStartsNothing

\* C16 as amended: the throttle and the pause last only until bytes arrive.
\* With a failed completion and no bytes since, canRequest() offers at most one
\* span; with four or more failed completions and no bytes in between or
\* since, it offers nothing until 120 s after the latest failure, and idle
\* ticks start nothing meanwhile.  Bytes arriving on any fetch lift both.
C16_ThrottledUntilData ==
    /\ [](hist.quiet >= 1 => canRequest(lim)[1] <= 1)
    /\ []((hist.quiet >= 4 /\ now < CooldownEnd) => canRequest(lim) = <<0, 0>>)
    /\ [](hist.quiet = 0 => lim.n_consecutive_failures = 0 /\ lim.paused_until = 0)
    /\ IdleTickStartsNothing

\* C16's case: an idle tick during the cooldown of four failed completions
C16_Witness ==
    /\ out.op = "on_idle"
    /\ out.io = <<0, 0>>
    /\ hist.quiet = 4
    /\ hist.fails = 4
    /\ now < CooldownEnd
    /\ tasks = {}


(***************************************************************************)
(* The claims about the idle logic as the only source of tasks, under      *)
(* SpecIdle.                                                               *)
(***************************************************************************)
\* C29: with tasks created by the idle logic alone the limiter never counts
\* more than MaxConnections tasks, and the idle logic starts no task while the
\* limiter is paused, nor while the failure count is above zero and a task is
\* outstanding: after a failure it starts one task, and only when none is
\* outstanding.  requestBlocks changes the limiter by taskStarted only, so the
\* limiter the idle logic consulted is the one after the step less the tasks
\* the step started.
C29_IdleLogicWithinLimits ==
    /\ [](lim.n_tasks <= MaxConnections)
    /\ [][out'.sent # <<>>
             => /\ out'.op \in {"on_idle", "onPartialDataFetched"}
                /\ out'.idle
                /\ ~isPaused(lim', now)
                /\ lim'.paused_until = lim.paused_until
                /\ lim'.n_consecutive_failures > 0
                       => /\ Len(out'.sent) = 1
                          /\ lim'.n_tasks = 1]_vars

\* C29's case: the idle logic has filled the last free connections and
\* MaxConnections tasks are outstanding
C29_Witness ==
    /\ out.op = "on_idle"
    /\ out.sent # <<>>
    /\ lim.n_tasks = MaxConnections
    /\ Cardinality(tasks) = MaxConnections


(***************************************************************************)
(* The claims about a fair transport, under SpecLive.                      *)
(***************************************************************************)
\* the one task of these runs has just left the active set: it retired at
\* end_byte, its fetch failed, or the webseed was destroyed
TaskLeft ==
    \/ tasks = {}
    \/ out.op = "onPartialDataFetched" /\ out.idle

\* C31 as stated: when every fetch issued completes and the torrent stays,
\* a task in the active set eventually leaves it, whatever number of bytes the
\* 206 completions deliver.
C31_TaskEventuallyLeaves ==
    (tasks # {}) ~> TaskLeft

=============================================================================
